---------------------------- MODULE Spec2Model ----------------------------
(***************************************************************************)
(* Model of the two AWS Lambda handlers of the bioreactor IoT pipeline:    *)
(*                                                                         *)
(*   lambda_functions/firehose-biorreator-transform.py                     *)
(*       the Kinesis Firehose transformation handler (Sensor Transformer)  *)
(*   lambda_functions/biorreator-alarm-processor.py                        *)
(*       the IoT-rule alarm handler (Alarm Notifier)                       *)
(*                                                                         *)
(* Python values are tagged records ([t |-> "str", s |-> ...], ...), a     *)
(* Python string is a sequence of one-character strings, so that split,    *)
(* strptime, strftime, str, int and float are computed and not assumed.    *)
(* A Python call that may raise returns [ok |-> TRUE, v |-> value] or      *)
(* [ok |-> FALSE, err |-> exception name].                                 *)
(*                                                                         *)
(* The transform source has lost its indentation. extract_equipment_id is  *)
(* read as one if / elif / elif / else chain at function level, with       *)
(* "if len(topic_parts) >= 2" nested in the 'topic' branch: the reading in *)
(* which 'deviceId' is looked at when there is no 'topic' at all.          *)
(***************************************************************************)
EXTENDS Integers, Sequences, FiniteSets, TLC

VARIABLES
    event,          \* transformer: event['records'], the Firehose batch
    idx,            \* transformer: how many records the for loop has consumed
    output,         \* transformer: the list `output`
    pc,             \* transformer: "idle", "loop", "returned"
    response,       \* transformer: the returned dict, or NoValue
    clock,          \* index of the current instant (datetime.utcnow())
    a_event,        \* alarm: the event passed to lambda_handler
    a_pc,           \* alarm: "idle", "start", "send", "store", "returned"
    a_local,        \* alarm: the handler's local variables after line 177
    alarm_record,   \* alarm: the dict alarm_record
    ses_calls,      \* alarm: outcomes of the ses.send_email calls made
    s3_calls,       \* alarm: put_object calls attempted (key, body, outcome)
    s3_objects,     \* alarm: objects stored in the bucket
    a_response      \* alarm: the returned dict, or NoValue

tvars == <<event, idx, output, pc, response>>
avars == <<a_event, a_pc, a_local, alarm_record, ses_calls, s3_calls, s3_objects, a_response>>
vars == <<event, idx, output, pc, response, clock,
          a_event, a_pc, a_local, alarm_record, ses_calls, s3_calls, s3_objects, a_response>>

(***************************************************************************)
(* Bounds of the model.                                                    *)
(***************************************************************************)
MaxBatch == 2       \* longest Firehose batch explored
ClockTicks == 1     \* the clock takes the instants 0 .. ClockTicks

(***************************************************************************)
(* Python values.                                                          *)
(***************************************************************************)
NoValue == [t |-> "novalue"]                 \* a variable not yet assigned
Absent == [t |-> "absent"]                   \* a key that is not in a dict
None == [t |-> "null"]                       \* None / JSON null
PyStr(cs) == [t |-> "str", s |-> cs]
PyInt(n) == [t |-> "int", n |-> n]
PyFloat(x10) == [t |-> "float", x10 |-> x10] \* a float, held in tenths
PyList(es) == [t |-> "list", e |-> es]
PyDict(m) == [t |-> "dict", m |-> m]
EmptyMap == [k \in {} |-> None]

Ok(v) == [ok |-> TRUE, v |-> v]
Raise(e) == [ok |-> FALSE, err |-> e]

\* A dict from a choice per key, Absent meaning that the key is left out.
MkDict(choice) ==
    PyDict([k \in {key \in DOMAIN choice : choice[key] # Absent} |-> choice[k]])

\* dict.get(key, default)
Get(m, key, default) == IF key \in DOMAIN m THEN m[key] ELSE default

(***************************************************************************)
(* Strings and numbers.                                                    *)
(***************************************************************************)
Digits == <<"0", "1", "2", "3", "4", "5", "6", "7", "8", "9">>
IsDigit(c) == \E i \in 1..10 : Digits[i] = c
DigitVal(c) == (CHOOSE i \in 1..10 : Digits[i] = c) - 1
AllDigits(cs) == Len(cs) > 0 /\ \A i \in 1..Len(cs) : IsDigit(cs[i])

RECURSIVE DigitsToNat(_)
DigitsToNat(cs) ==
    IF cs = <<>> THEN 0
    ELSE 10 * DigitsToNat(SubSeq(cs, 1, Len(cs) - 1)) + DigitVal(cs[Len(cs)])

RECURSIVE NatToDigits(_)
NatToDigits(n) ==
    IF n < 10 THEN <<Digits[n + 1]>>
    ELSE NatToDigits(n \div 10) \o <<Digits[(n % 10) + 1]>>

\* '%0wd' % n : n in decimal, padded with zeros on the left to width w
RECURSIVE ZeroPad(_, _)
ZeroPad(cs, w) == IF Len(cs) >= w THEN cs ELSE ZeroPad(<<"0">> \o cs, w)
Padded(n, w) == ZeroPad(NatToDigits(n), w)

\* str.split(sep): the segments between the separators, empty ones included
RECURSIVE Split(_, _)
Split(cs, sep) ==
    IF \A i \in 1..Len(cs) : cs[i] # sep THEN <<cs>>
    ELSE LET k == CHOOSE i \in 1..Len(cs) :
                      cs[i] = sep /\ \A j \in 1..(i - 1) : cs[j] # sep
         IN <<SubSeq(cs, 1, k - 1)>> \o Split(SubSeq(cs, k + 1, Len(cs)), sep)

\* str(v) for the values an identifier field holds in the model
str(v) ==
    CASE v.t = "str" -> v.s
      [] v.t = "int" -> IF v.n >= 0 THEN NatToDigits(v.n)
                        ELSE <<"-">> \o NatToDigits(-v.n)
      [] v.t = "null" -> <<"N", "o", "n", "e">>

\* int(v): an int as it is, a float truncated toward zero, a string of
\* decimal digits parsed; ValueError for another string, TypeError otherwise
int(v) ==
    CASE v.t = "int" -> Ok(PyInt(v.n))
      [] v.t = "float" -> Ok(PyInt(IF v.x10 >= 0 THEN v.x10 \div 10
                                   ELSE -((-v.x10) \div 10)))
      [] v.t = "str" -> IF AllDigits(v.s) THEN Ok(PyInt(DigitsToNat(v.s)))
                        ELSE Raise("ValueError")
      [] OTHER -> Raise("TypeError")

\* float(v): an int widened, a float as it is, a string "ddd" or "ddd.d"
\* parsed; ValueError for another string, TypeError otherwise
float(v) ==
    CASE v.t = "int" -> Ok(PyFloat(10 * v.n))
      [] v.t = "float" -> Ok(PyFloat(v.x10))
      [] v.t = "str" ->
            LET parts == Split(v.s, ".")
            IN IF Len(parts) = 1 /\ AllDigits(parts[1])
                   THEN Ok(PyFloat(10 * DigitsToNat(parts[1])))
               ELSE IF Len(parts) = 2 /\ AllDigits(parts[1])
                       /\ Len(parts[2]) = 1 /\ AllDigits(parts[2])
                   THEN Ok(PyFloat(10 * DigitsToNat(parts[1]) + DigitsToNat(parts[2])))
               ELSE Raise("ValueError")
      [] OTHER -> Raise("TypeError")

(***************************************************************************)
(* datetime.                                                               *)
(***************************************************************************)
DateTime(y, mo, d, h, mi, s) ==
    [year |-> y, month |-> mo, day |-> d, hour |-> h, minute |-> mi, second |-> s]

IsLeap(y) == (y % 4 = 0 /\ y % 100 # 0) \/ y % 400 = 0
DaysInMonth(y, mo) ==
    IF mo = 2 THEN (IF IsLeap(y) THEN 29 ELSE 28)
    ELSE IF mo \in {4, 6, 9, 11} THEN 30 ELSE 31

\* datetime.strptime(v, '%Y-%m-%d %H:%M:%S'): four digits of year, one or
\* two digits for the other fields, each in its range; TypeError when v is
\* not a string, ValueError when the text does not match
strptime(v) ==
    IF v.t # "str" THEN Raise("TypeError")
    ELSE LET halves == Split(v.s, " ") IN
         IF Len(halves) # 2 THEN Raise("ValueError")
         ELSE LET date == Split(halves[1], "-")
                  time == Split(halves[2], ":")
              IN IF Len(date) # 3 \/ Len(time) # 3 THEN Raise("ValueError")
                 ELSE IF ~(/\ AllDigits(date[1]) /\ Len(date[1]) = 4
                           /\ \A i \in 2..3 : AllDigits(date[i]) /\ Len(date[i]) <= 2
                           /\ \A i \in 1..3 : AllDigits(time[i]) /\ Len(time[i]) <= 2)
                     THEN Raise("ValueError")
                 ELSE LET y == DigitsToNat(date[1])
                          mo == DigitsToNat(date[2])
                          d == DigitsToNat(date[3])
                          h == DigitsToNat(time[1])
                          mi == DigitsToNat(time[2])
                          s == DigitsToNat(time[3])
                      IN IF /\ y >= 1
                            /\ mo \in 1..12
                            /\ d \in 1..DaysInMonth(y, mo)
                            /\ h \in 0..23 /\ mi \in 0..59 /\ s \in 0..59
                         THEN Ok(DateTime(y, mo, d, h, mi, s))
                         ELSE Raise("ValueError")

\* dt.strftime('%Y'), '%m', '%d', '%H'
strftime_Y(dt) == Padded(dt.year, 4)
strftime_m(dt) == Padded(dt.month, 2)
strftime_d(dt) == Padded(dt.day, 2)
strftime_H(dt) == Padded(dt.hour, 2)

\* dt.strftime('%Y-%m-%d %H:%M:%S')
strftime(dt) ==
    Padded(dt.year, 4) \o <<"-">> \o Padded(dt.month, 2) \o <<"-">> \o Padded(dt.day, 2)
    \o <<" ">> \o Padded(dt.hour, 2) \o <<":">> \o Padded(dt.minute, 2)
    \o <<":">> \o Padded(dt.second, 2)

\* dt.strftime('%Y%m%d%H%M%S')
strftime_compact(dt) ==
    Padded(dt.year, 4) \o Padded(dt.month, 2) \o Padded(dt.day, 2)
    \o Padded(dt.hour, 2) \o Padded(dt.minute, 2) \o Padded(dt.second, 2)

\* datetime.utcnow() when the clock stands at instant k: the instants are an
\* hour apart, starting at 2026-11-02 22:30:15
utcnow(k) ==
    LET h == 22 + k
    IN DateTime(2026, 11, 2 + (h \div 24), h % 24, 30, 15)

(***************************************************************************)
(* Sensor Transformer: firehose-biorreator-transform.py                    *)
(***************************************************************************)
KeyText ==
    [equipment |-> <<"e", "q", "u", "i", "p", "m", "e", "n", "t">>,
     topic |-> <<"t", "o", "p", "i", "c">>,
     deviceId |-> <<"d", "e", "v", "i", "c", "e", "I", "d">>]

IsSubstring(k, cs) ==
    \E i \in 0..(Len(cs) - Len(k)) : SubSeq(cs, i + 1, i + Len(k)) = k

\* key in data: a key of a dict, an element of a list, a substring of a
\* string; TypeError for a number or None
Contains(key, data) ==
    CASE data.t = "dict" -> Ok(key \in DOMAIN data.m)
      [] data.t = "list" ->
            Ok(\E i \in 1..Len(data.e) :
                   data.e[i].t = "str" /\ data.e[i].s = KeyText[key])
      [] data.t = "str" -> Ok(IsSubstring(KeyText[key], data.s))
      [] OTHER -> Raise("TypeError")

\* data[key] once `key in data` held: only a dict can be indexed by a string
Subscript(data, key) ==
    IF data.t = "dict" THEN Ok(data.m[key]) ELSE Raise("TypeError")

UNKNOWN == <<"U", "N", "K", "N", "O", "W", "N">>

\* the 'topic' branch: a topic of fewer than two segments leaves the branch
\* without a return statement, so the function returns None
TopicBranch(data) ==
    LET topic == Subscript(data, "topic") IN
    IF ~topic.ok THEN topic
    ELSE IF topic.v.t # "str" THEN Raise("AttributeError")
    ELSE LET topic_parts == Split(topic.v.s, "/")
         IN IF Len(topic_parts) >= 2 THEN Ok(PyStr(topic_parts[2]))
            ELSE Ok(None)

extract_equipment_id(data) ==
    LET has_equipment == Contains("equipment", data) IN
    IF ~has_equipment.ok THEN has_equipment
    ELSE IF has_equipment.v
        THEN LET equipment == Subscript(data, "equipment")
             IN IF equipment.ok THEN Ok(PyStr(str(equipment.v))) ELSE equipment
    ELSE IF Contains("topic", data).v
        THEN TopicBranch(data)
    ELSE IF Contains("deviceId", data).v
        THEN LET deviceId == Subscript(data, "deviceId")
             IN IF deviceId.ok THEN Ok(PyStr(str(deviceId.v))) ELSE deviceId
    ELSE Ok(PyStr(UNKNOWN))

\* A variant of NormalizeField without its first branch: a list is never
\* unwrapped.
NormalizeFieldNoFirstElement(raw, isInt) ==
    IF raw.t # "null" /\ raw.t # "list"
        THEN (IF isInt THEN int(raw) ELSE float(raw))
    ELSE Ok(None)

\* The rule written out once per sensor field (lines 108-141): the first
\* element of a non-empty list when it is not None, else the value itself
\* when it is neither None nor a list, else None; int() for rpm, float()
\* for the others, whose exception is not caught here.
NormalizeField(raw, isInt) ==
    IF raw.t = "list" /\ Len(raw.e) > 0 /\ raw.e[1].t # "null"
        THEN (IF isInt THEN int(raw.e[1]) ELSE float(raw.e[1]))
    ELSE IF raw.t # "null" /\ raw.t # "list"
        THEN (IF isInt THEN int(raw) ELSE float(raw))
    ELSE Ok(None)

\* the four sensor_data.get(...) reads, [None] being the default
SensorReads(sensor_data) ==
    LET default == PyList(<<None>>) IN
    [ph |-> Get(sensor_data.m, "pH", Get(sensor_data.m, "ph", default)),
     rpm |-> Get(sensor_data.m, "rpm", default),
     tcd |-> Get(sensor_data.m, "tcd", default),
     temperatura |-> Get(sensor_data.m, "temperatura", default)]

SensorFields == {"ph", "rpm", "tcd", "temperatura"}

\* A variant of Normalized that catches each field's exception on its own
\* and nulls that field alone.
NormalizedPerField(sensor_data) ==
    IF sensor_data.t # "dict" THEN Raise("AttributeError")
    ELSE LET reads == SensorReads(sensor_data)
             res == [f \in SensorFields |-> NormalizeField(reads[f], f = "rpm")]
         IN Ok([f \in SensorFields |-> IF res[f].ok THEN res[f].v ELSE None])

\* the fields of lines 101-141, or the first exception they raise;
\* sensor_data.get raises AttributeError when 'd' is not a dict
Normalized(sensor_data) ==
    IF sensor_data.t # "dict" THEN Raise("AttributeError")
    ELSE LET reads == SensorReads(sensor_data)
             res == [f \in SensorFields |-> NormalizeField(reads[f], f = "rpm")]
         IN IF \A f \in SensorFields : res[f].ok
            THEN Ok([f \in SensorFields |-> res[f].v])
            ELSE Raise("ValueError")

PartitionKeys(dt) ==
    [partition_year |-> PyStr(strftime_Y(dt)),
     partition_month |-> PyStr(strftime_m(dt)),
     partition_day |-> PyStr(strftime_d(dt)),
     partition_hour |-> PyStr(strftime_H(dt))]

NormalizedRecord(fields, timestamp, equipment_id, keys) ==
    [ph |-> fields.ph, rpm |-> fields.rpm, tcd |-> fields.tcd,
     temperatura |-> fields.temperatura,
     timestamp |-> timestamp, equipment |-> equipment_id,
     partition_year |-> keys.partition_year, partition_month |-> keys.partition_month,
     partition_day |-> keys.partition_day, partition_hour |-> keys.partition_hour]

\* the except branch of lines 162-176; `now` is its datetime.utcnow()
Fallback(data, equipment_id, now) ==
    NormalizedRecord([f \in SensorFields |-> None],
                     Get(data.m, "ts", PyStr(strftime(utcnow(now)))),
                     equipment_id,
                     PartitionKeys(utcnow(now)))

\* the partition source of lines 84-98: the parsed timestamp, or utcnow()
\* when strptime raises
PartitionInstant(timestamp, later) ==
    LET parsed == strptime(timestamp)
    IN IF parsed.ok THEN parsed.v ELSE utcnow(later)

\* transform_sensor_data_with_partitioning(data, equipment_id). `first` is
\* the clock at the utcnow() of line 81, `later` the clock at the utcnow()
\* of line 94 or of line 164, whichever supplies the partition keys (when
\* both run, line 164 discards what line 94 read). data.get raises
\* AttributeError on a value that is not a dict, at line 80 and again at line
\* 170 inside the handler, so that exception leaves the function.
transform_sensor_data_with_partitioning(data, equipment_id, first, later) ==
    IF data.t # "dict" THEN Raise("AttributeError")
    ELSE LET sensor_data == Get(data.m, "d", PyDict(EmptyMap))
             timestamp == Get(data.m, "ts", PyStr(strftime(utcnow(first))))
             dt == PartitionInstant(timestamp, later)
             fields == Normalized(sensor_data)
         IN IF fields.ok
            THEN Ok(NormalizedRecord(fields.v, timestamp, equipment_id, PartitionKeys(dt)))
            ELSE Ok(Fallback(data, equipment_id, later))

\* base64.b64decode(record['data']).decode('utf-8') then json.loads: the
\* record's data is held by what the three decoders make of it
DecodePayload(data) ==
    CASE data.enc = "bad_base64" -> Raise("binascii.Error")
      [] data.enc = "bad_utf8" -> Raise("UnicodeDecodeError")
      [] data.enc = "bad_json" -> Raise("JSONDecodeError")
      [] data.enc = "json" -> Ok(data.value)

\* base64.b64encode((json.dumps(transformed_data) + '\n').encode('utf-8'))
EncodePayload(transformed_data) ==
    [enc |-> "json", value |-> transformed_data, newline |-> TRUE]

ProcessingFailed(record) ==
    IF "recordId" \in DOMAIN record
    THEN Ok([recordId |-> record.recordId, result |-> "ProcessingFailed"])
    ELSE Raise("KeyError")

\* A variant of ProcessRecord without the try / except of lines 23 and 52:
\* an exception of the body leaves the handler.
ProcessRecordUncaught(record, first, later) ==
    IF "data" \notin DOMAIN record THEN Raise("KeyError")
    ELSE LET data == DecodePayload(record.data) IN
         IF ~data.ok THEN data
         ELSE LET equipment_id == extract_equipment_id(data.v) IN
              IF ~equipment_id.ok THEN equipment_id
              ELSE LET transformed_data ==
                           transform_sensor_data_with_partitioning(
                               data.v, equipment_id.v, first, later)
                   IN IF ~transformed_data.ok THEN transformed_data
                      ELSE Ok([recordId |-> record.recordId, result |-> "Ok",
                               data |-> EncodePayload(transformed_data.v)])

\* the body of the for loop, lines 23-57: the outcome appended to output,
\* or the exception that leaves the handler
ProcessRecord(record, first, later) ==
    IF "data" \notin DOMAIN record THEN ProcessingFailed(record)
    ELSE LET data == DecodePayload(record.data) IN
         IF ~data.ok THEN ProcessingFailed(record)
         ELSE LET equipment_id == extract_equipment_id(data.v) IN
              IF ~equipment_id.ok THEN ProcessingFailed(record)
              ELSE LET transformed_data ==
                           transform_sensor_data_with_partitioning(
                               data.v, equipment_id.v, first, later)
                   IN IF ~transformed_data.ok THEN ProcessingFailed(record)
                      ELSE IF "recordId" \notin DOMAIN record THEN Raise("KeyError")
                      ELSE Ok([recordId |-> record.recordId, result |-> "Ok",
                               data |-> EncodePayload(transformed_data.v)])

(***************************************************************************)
(* Inputs of the Sensor Transformer.                                       *)
(***************************************************************************)
E1 == <<"E", "1">>
D1 == <<"D", "1">>
TopicThree == <<"P", "R", "O", "/", "E", "2", "/", "d", "a", "t", "a">>
TopicOne == <<"P", "R", "O">>
NotANumber == <<"n", "o", "t", "-", "a", "-", "n", "u", "m", "b", "e", "r">>

\* "2025-08-31 10:00:00"
TsPadded ==
    <<"2", "0", "2", "5", "-", "0", "8", "-", "3", "1", " ",
      "1", "0", ":", "0", "0", ":", "0", "0">>
\* "2024-2-29 5:07:09", which strptime accepts
TsUnpadded ==
    <<"2", "0", "2", "4", "-", "2", "-", "2", "9", " ",
      "5", ":", "0", "7", ":", "0", "9">>
\* "2025-02-30 10:00:00": no such day
TsNoSuchDay ==
    <<"2", "0", "2", "5", "-", "0", "2", "-", "3", "0", " ",
      "1", "0", ":", "0", "0", ":", "0", "0">>
\* "31/08/2025 10:00"
TsOtherFormat ==
    <<"3", "1", "/", "0", "8", "/", "2", "0", "2", "5", " ", "1", "0", ":", "0", "0">>

TsValues ==
    {Absent, PyStr(TsPadded), PyStr(TsUnpadded), PyStr(TsNoSuchDay),
     PyStr(TsOtherFormat), PyInt(1756634400), None}

EquipmentValues == {Absent, PyStr(E1), PyInt(7)}
TopicValues == {Absent, PyStr(TopicThree), PyStr(TopicOne), PyInt(5)}
DeviceIdValues == {Absent, PyStr(D1)}

\* what one sensor key may hold
SensorValues ==
    {Absent, None, PyList(<<>>), PyList(<<None>>), PyList(<<PyFloat(68)>>),
     PyList(<<PyInt(3), None>>), PyFloat(-15), PyStr(<<"1", "5", "0">>),
     PyStr(<<"6", ".", "8">>), PyStr(NotANumber)}

SensorDict(pH, ph, rpm, tcd, temperatura) ==
    MkDict([pH |-> pH, ph |-> ph, rpm |-> rpm, tcd |-> tcd, temperatura |-> temperatura])

\* a few 'd' sections, for the payloads that vary everything else
FewSections ==
    {Absent, None, PyDict(EmptyMap),
     SensorDict(PyList(<<PyFloat(68)>>), Absent, PyList(<<PyInt(150)>>), Absent, Absent),
     SensorDict(PyList(<<PyFloat(68)>>), Absent, PyStr(NotANumber), PyInt(3), Absent)}

\* every 'd' section over SensorValues; the alternate key 'ph' is absent or [7.1]
AllSections ==
    {SensorDict(pH, ph, rpm, tcd, temperatura) :
        pH \in SensorValues, ph \in {Absent, PyList(<<PyFloat(71)>>)},
        rpm \in SensorValues, tcd \in SensorValues, temperatura \in SensorValues}

Payload(equipment, topic, deviceId, d, ts) ==
    MkDict([equipment |-> equipment, topic |-> topic, deviceId |-> deviceId,
            d |-> d, ts |-> ts])

\* decoded payloads: every envelope with a few 'd' sections, every 'd'
\* section with one envelope, and four payloads that are not objects
Payloads ==
    {Payload(equipment, topic, deviceId, d, ts) :
        equipment \in EquipmentValues, topic \in TopicValues,
        deviceId \in DeviceIdValues, d \in FewSections, ts \in TsValues}
    \cup {Payload(PyStr(E1), Absent, Absent, d, PyStr(TsPadded)) : d \in AllSections}
    \cup {PyList(<<>>), PyList(<<PyStr(KeyText["equipment"])>>), PyInt(5), None}

RecordIds == {"r1", "r2"}

Json(value) == [enc |-> "json", value |-> value]

\* Firehose records of a single-record batch: every payload, and the data
\* that does not decode
SingleRecords ==
    {[recordId |-> "r1", data |-> Json(p)] : p \in Payloads}
    \cup {[recordId |-> "r1", data |-> [enc |-> e]] :
            e \in {"bad_base64", "bad_utf8", "bad_json"}}
    \cup {[recordId |-> "r1"]}

\* the payloads of the batches: well-formed, degraded, and malformed ones
BatchData ==
    {[enc |-> "bad_base64"], [enc |-> "bad_json"],
     Json(PyList(<<>>)), Json(PyInt(5)),
     Json(Payload(PyStr(E1), Absent, Absent,
                  SensorDict(PyList(<<PyFloat(68)>>), Absent, PyList(<<PyInt(150)>>),
                             Absent, Absent),
                  PyStr(TsPadded))),
     Json(Payload(Absent, PyStr(TopicOne), PyStr(D1),
                  SensorDict(Absent, Absent, PyStr(NotANumber), Absent, Absent),
                  PyStr(TsOtherFormat))),
     Json(Payload(Absent, PyInt(5), Absent, Absent, Absent))}

BatchRecords ==
    {[recordId |-> id, data |-> d] : id \in RecordIds, d \in BatchData}
    \cup {[recordId |-> id] : id \in RecordIds}

RECURSIVE SeqsUpTo(_, _)
SeqsUpTo(S, n) ==
    IF n = 0 THEN {<<>>}
    ELSE LET shorter == SeqsUpTo(S, n - 1)
         IN shorter \cup {Append(q, x) : q \in {r \in shorter : Len(r) = n - 1}, x \in S}

Batches == SeqsUpTo(BatchRecords, MaxBatch)

(***************************************************************************)
(* The Sensor Transformer's lambda_handler as a state machine.             *)
(***************************************************************************)
AlarmIdle ==
    /\ a_event = NoValue
    /\ a_pc = "idle"
    /\ a_local = NoValue
    /\ alarm_record = NoValue
    /\ ses_calls = <<>>
    /\ s3_calls = <<>>
    /\ s3_objects = <<>>
    /\ a_response = NoValue

TransformerStart ==
    /\ idx = 0
    /\ output = <<>>
    /\ pc = "loop"
    /\ response = NoValue
    /\ clock = 0

\* lambda_handler called with a batch
Init ==
    /\ event \in Batches
    /\ TransformerStart
    /\ AlarmIdle

\* lambda_handler called with a batch of one record
InitRecord ==
    /\ event \in {<<r>> : r \in SingleRecords}
    /\ TransformerStart
    /\ AlarmIdle

\* one iteration of `for record in event['records']`
LoopStep ==
    /\ pc = "loop"
    /\ idx < Len(event)
    /\ \E first \in clock..ClockTicks : \E later \in first..ClockTicks :
          LET outcome == ProcessRecord(event[idx + 1], first, later)
          IN /\ clock' = later
             /\ idx' = idx + 1
             /\ IF outcome.ok
                   THEN output' = Append(output, outcome.v) /\ pc' = "loop"
                   ELSE output' = output /\ pc' = "raised"
    /\ UNCHANGED <<event, response>>
    /\ UNCHANGED avars

\* return {'records': output}
Return ==
    /\ pc = "loop"
    /\ idx = Len(event)
    /\ response' = [records |-> output]
    /\ pc' = "returned"
    /\ UNCHANGED <<event, idx, output, clock>>
    /\ UNCHANGED avars

Next == LoopStep \/ Return

Spec == Init /\ [][Next]_vars

SpecRecord == InitRecord /\ [][Next]_vars

(***************************************************************************)
(* Alarm Notifier: biorreator-alarm-processor.py                           *)
(***************************************************************************)
S3_PREFIX == <<"a", "l", "a", "r", "m", "s", "/">>
SES_FROM ==
    <<"b", "i", "o", "r", "r", "e", "a", "t", "o", "r", ".", "x", "x", "x",
      "@", "g", "m", "a", "i", "l", ".", "c", "o", "m">>
UnknownAlarm ==
    <<"U", "n", "k", "n", "o", "w", "n", " ", "a", "l", "a", "r", "m">>
unknown == <<"u", "n", "k", "n", "o", "w", "n">>

\* bool(v)
Truthy(v) ==
    CASE v.t = "null" -> FALSE
      [] v.t = "list" -> Len(v.e) > 0
      [] v.t = "str" -> Len(v.s) > 0
      [] v.t = "int" -> v.n # 0
      [] v.t = "dict" -> DOMAIN v.m # {}

\* line 73: alarm_array[0] if alarm_array and len(alarm_array) > 0 else
\* 'Unknown alarm'; len() of a number raises TypeError, a dict has no key 0
AlarmMessage(alarm_array) ==
    IF ~Truthy(alarm_array) THEN Ok(PyStr(UnknownAlarm))
    ELSE CASE alarm_array.t = "list" -> Ok(alarm_array.e[1])
           [] alarm_array.t = "str" -> Ok(PyStr(<<alarm_array.s[1]>>))
           [] alarm_array.t = "int" -> Raise("TypeError")
           [] alarm_array.t = "dict" -> Raise("KeyError")

\* lines 76 and 86-88: the recipients, or the default test address
EmailList(email_array) ==
    IF email_array.t = "list" /\ Truthy(email_array) THEN email_array.e
    ELSE <<PyStr(SES_FROM)>>

\* ', '.join(recipients) raises TypeError on an item that is not a string
RECURSIVE JoinComma(_)
JoinComma(items) ==
    IF Len(items) = 0 THEN <<>>
    ELSE IF Len(items) = 1 THEN items[1].s
    ELSE items[1].s \o <<",", " ">> \o JoinComma(Tail(items))

Join(recipients) ==
    IF \A i \in 1..Len(recipients) : recipients[i].t = "str"
    THEN Ok(JoinComma(recipients)) ELSE Raise("TypeError")

\* line 110
S3Key(dt, equipment) ==
    S3_PREFIX \o <<"y", "e", "a", "r", "=">> \o NatToDigits(dt.year)
    \o <<"/", "m", "o", "n", "t", "h", "=">> \o Padded(dt.month, 2)
    \o <<"/", "d", "a", "y", "=">> \o Padded(dt.day, 2)
    \o <<"/", "e", "q", "u", "i", "p", "m", "e", "n", "t", "=">> \o str(equipment)
    \o <<"/">> \o strftime_compact(dt)
    \o <<"_", "a", "l", "a", "r", "m", ".", "j", "s", "o", "n">>

\* line 107: dt = datetime.strptime(timestamp, '%Y-%m-%d %H:%M:%S'), outside
\* any try of its own
KeyInstant(timestamp, now) == strptime(timestamp)

\* lines 48-177: the local variables before the delivery attempt, or the
\* exception raised on the way. `first` is the clock at line 79, `later` at
\* line 99. The two rendered bodies are held by the values they embed; their
\* own "Processado" stamps are left out.
Prepare(ev, first, later) ==
    IF ev.t # "dict" THEN Raise("AttributeError")
    ELSE LET d_data == Get(ev.m, "d", PyDict(EmptyMap)) IN
         IF d_data.t # "dict" THEN Raise("AttributeError")
         ELSE LET alarm_array == Get(d_data.m, "alarm", PyList(<<>>))
                  email_array == Get(d_data.m, "email", PyList(<<>>))
                  alarm_message == AlarmMessage(alarm_array)
              IN IF ~alarm_message.ok THEN alarm_message
                 ELSE LET email_list == EmailList(email_array)
                          timestamp == Get(ev.m, "ts", PyStr(strftime(utcnow(first))))
                          equipment == Get(ev.m, "equipment", PyStr(unknown))
                          record == [alarm_message |-> alarm_message.v,
                                     email_recipients |-> email_list,
                                     timestamp |-> timestamp,
                                     equipment |-> equipment,
                                     processed_at |-> PyStr(strftime(utcnow(later))),
                                     email_sent |-> FALSE,
                                     test_mode |-> TRUE,
                                     raw_payload |-> ev]
                          dt == KeyInstant(timestamp, later)
                      IN IF ~dt.ok THEN dt
                         ELSE LET joined == Join(email_list) IN
                              IF ~joined.ok THEN joined
                              ELSE Ok([alarm_record |-> record,
                                       s3_key |-> S3Key(dt.v, equipment),
                                       recipients |-> email_list,
                                       equipment |-> equipment,
                                       alarm_message |-> alarm_message.v,
                                       message |->
                                           [Source |-> SES_FROM,
                                            ToAddresses |-> email_list,
                                            Subject |-> equipment,
                                            Body |-> [equipment |-> equipment,
                                                      timestamp |-> timestamp,
                                                      alarm_message |-> alarm_message.v,
                                                      recipients |-> joined.v]]])

\* A variant of RecordDelivery that flags the mail as sent on failure too.
RecordDeliveryAlwaysSent(record, sent) ==
    IF sent.ok
    THEN [record EXCEPT !.email_sent = TRUE] @@ [ses_message_id |-> sent.v]
    ELSE [record EXCEPT !.email_sent = TRUE] @@ [email_error |-> sent.err]

\* lines 198-199 and 203-205: what the delivery outcome adds to alarm_record
RecordDelivery(record, sent) ==
    IF sent.ok
    THEN [record EXCEPT !.email_sent = TRUE] @@ [ses_message_id |-> sent.v]
    ELSE record @@ [email_error |-> sent.err]

\* lines 223-235
SuccessResponse(local, record) ==
    [statusCode |-> 200,
     body |-> [status |-> "success", mode |-> "TEST",
               s3_key |-> local.s3_key,
               equipment |-> local.equipment,
               alarm_message |-> local.alarm_message,
               recipients |-> local.recipients,
               email_sent |-> record.email_sent,
               sender |-> SES_FROM]]

\* A variant of ErrorResponse that answers 200.
ErrorResponseAsSuccess(e) ==
    [statusCode |-> 200, body |-> [error |-> e, mode |-> "TEST"]]

\* lines 237-243
ErrorResponse(e) ==
    [statusCode |-> 500, body |-> [error |-> e, mode |-> "TEST"]]

(***************************************************************************)
(* Inputs of the Alarm Notifier and outcomes of its collaborators.         *)
(***************************************************************************)
Overheat == <<"h", "o", "t">>
Operator == <<"o", "p", "@", "x">>
Second == <<"q", "a", "@", "x">>

AlarmValues ==
    {Absent, None, PyList(<<>>), PyList(<<PyStr(Overheat)>>), PyInt(5)}
EmailValues ==
    {Absent, PyList(<<>>), PyList(<<PyStr(Operator)>>),
     PyList(<<PyStr(Operator), PyStr(Second)>>), PyStr(Operator), PyList(<<PyInt(5)>>)}

AlarmSections ==
    {Absent, None}
    \cup {MkDict([alarm |-> a, email |-> e]) : a \in AlarmValues, e \in EmailValues}

AlarmEvents ==
    {MkDict([d |-> d, ts |-> ts, equipment |-> equipment]) :
        d \in AlarmSections, ts \in TsValues, equipment \in {Absent, PyStr(E1)}}
    \cup {PyList(<<>>)}

\* what ses.send_email returns or raises
MessageIds == {"0100-msg"}
SesErrors == {"MessageRejected", "Email address not verified"}
\* what s3.put_object raises
S3Errors == {"AccessDenied"}

(***************************************************************************)
(* The Alarm Notifier's lambda_handler as a state machine.                 *)
(***************************************************************************)
TransformerIdle ==
    /\ event = <<>>
    /\ idx = 0
    /\ output = <<>>
    /\ pc = "idle"
    /\ response = NoValue

\* lambda_handler called with an alarm event
InitAlarm ==
    /\ a_event \in AlarmEvents
    /\ a_pc = "start"
    /\ a_local = NoValue
    /\ alarm_record = NoValue
    /\ ses_calls = <<>>
    /\ s3_calls = <<>>
    /\ s3_objects = <<>>
    /\ a_response = NoValue
    /\ clock = 0
    /\ TransformerIdle

\* lines 48-177 run to the delivery attempt
AlarmPrepared ==
    /\ a_pc = "start"
    /\ \E first \in clock..ClockTicks : \E later \in first..ClockTicks :
          LET prepared == Prepare(a_event, first, later)
          IN /\ prepared.ok
             /\ clock' = later
             /\ a_local' = prepared.v
             /\ alarm_record' = prepared.v.alarm_record
             /\ a_pc' = "send"
    /\ UNCHANGED <<a_event, ses_calls, s3_calls, s3_objects, a_response>>
    /\ UNCHANGED tvars

\* lines 48-177 raise: the handler of line 237 returns the 500 response
AlarmPrepareRaises ==
    /\ a_pc = "start"
    /\ \E first \in clock..ClockTicks : \E later \in first..ClockTicks :
          LET prepared == Prepare(a_event, first, later)
          IN /\ ~prepared.ok
             /\ clock' = later
             /\ a_response' = ErrorResponse(prepared.err)
             /\ a_pc' = "returned"
    /\ UNCHANGED <<a_event, a_local, alarm_record, ses_calls, s3_calls, s3_objects>>
    /\ UNCHANGED tvars

\* lines 179-211: ses.send_email returns a MessageId or raises
SendEmail ==
    /\ a_pc = "send"
    /\ \E sent \in {Ok(id) : id \in MessageIds} \cup {Raise(e) : e \in SesErrors} :
          /\ ses_calls' = Append(ses_calls, [message |-> a_local.message, outcome |-> sent])
          /\ alarm_record' = RecordDelivery(alarm_record, sent)
    /\ a_pc' = "store"
    /\ UNCHANGED <<a_event, a_local, s3_calls, s3_objects, a_response, clock>>
    /\ UNCHANGED tvars

\* lines 215-235: s3.put_object stores the audit object, the handler returns
PutObject ==
    /\ a_pc = "store"
    /\ s3_calls' = Append(s3_calls, [Key |-> a_local.s3_key, Body |-> alarm_record,
                                     after_ses_calls |-> Len(ses_calls), stored |-> TRUE])
    /\ s3_objects' = Append(s3_objects, [Key |-> a_local.s3_key, Body |-> alarm_record])
    /\ a_response' = SuccessResponse(a_local, alarm_record)
    /\ a_pc' = "returned"
    /\ UNCHANGED <<a_event, a_local, alarm_record, ses_calls, clock>>
    /\ UNCHANGED tvars

\* line 215: s3.put_object raises, the handler of line 237 returns the 500
PutObjectRaises ==
    /\ a_pc = "store"
    /\ \E e \in S3Errors :
          /\ s3_calls' = Append(s3_calls, [Key |-> a_local.s3_key, Body |-> alarm_record,
                                           after_ses_calls |-> Len(ses_calls),
                                           stored |-> FALSE])
          /\ a_response' = ErrorResponse(e)
    /\ a_pc' = "returned"
    /\ UNCHANGED <<a_event, a_local, alarm_record, ses_calls, s3_objects, clock>>
    /\ UNCHANGED tvars

NextAlarm ==
    AlarmPrepared \/ AlarmPrepareRaises \/ SendEmail \/ PutObject \/ PutObjectRaises

SpecAlarm == InitAlarm /\ [][NextAlarm]_vars

(***************************************************************************)
(* What the properties speak of, stated from the inputs and not from the   *)
(* handler's operators.                                                    *)
(***************************************************************************)
HasKey(p, k) == k \in DOMAIN p.m

\* the record's data decodes to a JSON object
IsObject(record) ==
    /\ "data" \in DOMAIN record
    /\ record.data.enc = "json"
    /\ record.data.value.t = "dict"

\* a JSON object whose equipment id can be resolved: only a 'topic' that is
\* consulted and is not a string prevents it
Resolvable(p) ==
    HasKey(p, "equipment") \/ ~HasKey(p, "topic") \/ p.m["topic"].t = "str"

\* a record the transformer cannot process
Malformed(record) == ~IsObject(record) \/ ~Resolvable(record.data.value)

\* the record emitted for input record i
Emitted(i) == output[i].data.value

Processed == 1..Len(output)

\* the 'd' section of a payload, and the value a sensor field is read from
Section(p) == Get(p.m, "d", PyDict(EmptyMap))
RawField(sec, f) ==
    IF sec.t # "dict" THEN Absent
    ELSE IF f = "ph"
        THEN (IF "pH" \in DOMAIN sec.m THEN sec.m["pH"] ELSE Get(sec.m, "ph", Absent))
    ELSE Get(sec.m, f, Absent)

\* the element the rule converts, or Absent when the rule yields null
Chosen(raw) ==
    IF raw.t = "list"
        THEN (IF Len(raw.e) > 0 /\ raw.e[1].t # "null" THEN raw.e[1] ELSE Absent)
    ELSE IF raw.t \in {"absent", "null"} THEN Absent
    ELSE raw

Converted(v, f) == IF f = "rpm" THEN int(v) ELSE float(v)

FieldFails(p, f) ==
    LET v == Chosen(RawField(Section(p), f))
    IN v # Absent /\ ~Converted(v, f).ok

\* what the rule yields for field f taken alone
RuleValue(p, f) ==
    LET v == Chosen(RawField(Section(p), f))
    IN IF v = Absent THEN None ELSE Converted(v, f).v

AllNull(rec) == \A f \in SensorFields : rec[f] = None

WellFormedTs(p) == HasKey(p, "ts") /\ strptime(p.m["ts"]).ok

Instants == 0..ClockTicks

\* C2's priority order
ExpectedEquipment(p) ==
    IF HasKey(p, "equipment") THEN PyStr(str(p.m["equipment"]))
    ELSE IF /\ HasKey(p, "topic")
            /\ p.m["topic"].t = "str"
            /\ Len(Split(p.m["topic"].s, "/")) >= 2
        THEN PyStr(Split(p.m["topic"].s, "/")[2])
    ELSE IF HasKey(p, "deviceId") THEN PyStr(str(p.m["deviceId"]))
    ELSE PyStr(UNKNOWN)

(***************************************************************************)
(* Properties of the Sensor Transformer.                                   *)
(***************************************************************************)

\* C1: the handler does not raise; after i iterations output holds one
\* outcome per consumed record, in input order, outcome i carrying record
\* i's recordId; a malformed record yields exactly {recordId, result:
\* 'ProcessingFailed'} (no data), every other record yields 'Ok' with data,
\* the very outcome a batch holding that record alone can produce; the
\* returned 'records' is that list, one outcome per input record.
C1_OneOutcomePerRecord ==
    /\ pc # "raised"
    /\ Len(output) = idx
    /\ \A i \in Processed :
          /\ output[i].recordId = event[i].recordId
          /\ Malformed(event[i]) =>
                output[i] = [recordId |-> event[i].recordId, result |-> "ProcessingFailed"]
          /\ ~Malformed(event[i]) =>
                /\ output[i].result = "Ok"
                /\ "data" \in DOMAIN output[i]
                /\ \E first \in Instants : \E later \in first..ClockTicks :
                      output[i] = ProcessRecord(event[i], first, later).v
    /\ pc = "returned" =>
          /\ response = [records |-> output]
          /\ Len(response.records) = Len(event)

\* a batch has been returned whose first record is malformed and whose
\* second is not
C1_Witness ==
    /\ pc = "returned"
    /\ Len(event) = 2
    /\ Malformed(event[1])
    /\ ~Malformed(event[2])
    /\ response.records[1].result = "ProcessingFailed"
    /\ response.records[2].result = "Ok"

\* C2: the equipment id of every record reported 'Ok' is the one the
\* priority order gives: 'equipment', else segment 1 of 'topic' when the
\* split has two segments, else 'deviceId', else "UNKNOWN".
C2_EquipmentByPriority ==
    \A i \in Processed :
        (IsObject(event[i]) /\ output[i].result = "Ok") =>
            Emitted(i).equipment = ExpectedEquipment(event[i].data.value)

\* C3: the fallback record of a payload whose field extraction fails has
\* the four fields null, the resolved equipment id, the payload's 'ts' (the
\* current instant when there is none) and the partition keys of that same
\* timestamp (of the current instant when it cannot be parsed).
C3_FallbackKeysFromTimestamp ==
    \A i \in Processed :
        LET p == event[i].data.value IN
        (/\ IsObject(event[i])
         /\ output[i].result = "Ok"
         /\ (Section(p).t # "dict" \/ \E f \in SensorFields : FieldFails(p, f))) =>
            /\ AllNull(Emitted(i))
            /\ Emitted(i).equipment = extract_equipment_id(p).v
            /\ \E k \in Instants :
                  LET keys == [x \in {"partition_year", "partition_month",
                                      "partition_day", "partition_hour"} |-> Emitted(i)[x]]
                  IN /\ Emitted(i).timestamp
                          = Get(p.m, "ts", PyStr(strftime(utcnow(k))))
                     /\ keys = IF strptime(Emitted(i).timestamp).ok
                               THEN PartitionKeys(strptime(Emitted(i).timestamp).v)
                               ELSE PartitionKeys(utcnow(k))

\* C5, as amended: when every field's chosen element converts, each field
\* of the emitted record is what the rule yields for it alone (the
\* converted element, or null for an absent key, a null, an empty sequence
\* or a null first element); when some field's conversion fails, or 'd' is
\* not a mapping, all four fields are null.
C5_FieldRuleUnlessAConversionFails ==
    \A i \in Processed :
        LET p == event[i].data.value IN
        (IsObject(event[i]) /\ output[i].result = "Ok") =>
            IF \E f \in SensorFields : FieldFails(p, f)
            THEN AllNull(Emitted(i))
            ELSE \A f \in SensorFields : Emitted(i)[f] = RuleValue(p, f)

\* C5, as stated: each field follows the rule whatever the other fields hold.
C5_EachFieldIndependently ==
    \A i \in Processed :
        LET p == event[i].data.value IN
        (IsObject(event[i]) /\ output[i].result = "Ok") =>
            \A f \in SensorFields :
                ~FieldFails(p, f) => Emitted(i)[f] = RuleValue(p, f)

\* a record has been emitted in which one field was converted from a
\* one-element sequence, one from a scalar, and one is null for a sequence
\* whose first element is null
C5_Witness ==
    /\ pc = "returned"
    /\ \E i \in Processed :
          LET p == event[i].data.value IN
          /\ IsObject(event[i]) /\ output[i].result = "Ok"
          /\ Section(p).t = "dict"
          /\ \A f \in SensorFields : ~FieldFails(p, f)
          /\ RawField(Section(p), "ph") = PyList(<<PyFloat(68)>>)
          /\ Emitted(i).ph = PyFloat(68)
          /\ RawField(Section(p), "rpm") = PyFloat(-15)
          /\ Emitted(i).rpm = PyInt(-1)
          /\ RawField(Section(p), "tcd") = PyList(<<None>>)
          /\ Emitted(i).tcd = None

\* C6: a payload with a well-formed 'ts' gets the zero-padded year, month,
\* day and hour of that timestamp as partition keys; a payload with a
\* missing or unparsable 'ts' gets the keys of a current instant; in both
\* cases the record is reported 'Ok'.
C6_PartitionKeys ==
    \A i \in Processed :
        LET p == event[i].data.value IN
        (IsObject(event[i]) /\ Resolvable(p)) =>
            /\ output[i].result = "Ok"
            /\ LET keys == [x \in {"partition_year", "partition_month",
                                   "partition_day", "partition_hour"} |-> Emitted(i)[x]]
               IN IF WellFormedTs(p)
                  THEN keys = PartitionKeys(strptime(p.m["ts"]).v)
                  ELSE \E k \in Instants : keys = PartitionKeys(utcnow(k))

\* C7: when the conversion of some sensor field fails the record is still
\* 'Ok' with encoded data, and all four fields of the emitted record are null.
C7_ConversionFailureDegradesWholeRecord ==
    \A i \in Processed :
        LET p == event[i].data.value IN
        (/\ IsObject(event[i]) /\ Resolvable(p)
         /\ \E f \in SensorFields : FieldFails(p, f)) =>
            /\ output[i].result = "Ok"
            /\ "data" \in DOMAIN output[i]
            /\ output[i].data.enc = "json"
            /\ AllNull(Emitted(i))

\* a record has been emitted whose rpm was "not-a-number" while its pH held
\* the valid [6.8]
C7_Witness ==
    /\ pc = "returned"
    /\ \E i \in Processed :
          LET p == event[i].data.value IN
          /\ IsObject(event[i]) /\ Resolvable(p)
          /\ RawField(Section(p), "rpm") = PyStr(NotANumber)
          /\ RawField(Section(p), "ph") = PyList(<<PyFloat(68)>>)
          /\ output[i].result = "Ok"
          /\ Emitted(i).ph = None

IsNumberOrNull(v, f) ==
    v = None \/ (IF f = "rpm" THEN v.t = "int" ELSE v.t = "float")

\* C10: every record emitted with result 'Ok' has the ten fields: the four
\* sensor fields a number or null, timestamp a string, equipment a string,
\* and the four partition keys strings.
C10_TenTypedFields ==
    \A i \in Processed :
        output[i].result = "Ok" =>
            /\ DOMAIN Emitted(i) =
                  SensorFields \cup {"timestamp", "equipment", "partition_year",
                                     "partition_month", "partition_day", "partition_hour"}
            /\ \A f \in SensorFields : IsNumberOrNull(Emitted(i)[f], f)
            /\ Emitted(i).timestamp.t = "str"
            /\ Emitted(i).equipment.t = "str"
            /\ \A x \in {"partition_year", "partition_month",
                         "partition_day", "partition_hour"} : Emitted(i)[x].t = "str"

(***************************************************************************)
(* Properties of the Alarm Notifier.                                       *)
(***************************************************************************)
AlarmReturned == a_pc = "returned"

\* a fault of lines 48-177 other than the timestamp: an event or 'd' that
\* is not a mapping, an 'alarm' that cannot be indexed, a recipient that is
\* not a string
ExtractionFault(ev) ==
    \/ ev.t # "dict"
    \/ Section(ev).t # "dict"
    \/ LET alarm == Get(Section(ev).m, "alarm", PyList(<<>>))
       IN Truthy(alarm) /\ alarm.t \notin {"list", "str"}
    \/ LET email == Get(Section(ev).m, "email", PyList(<<>>))
       IN email.t = "list" /\ \E j \in 1..Len(email.e) : email.e[j].t # "str"

UnparsableTs(ev) == ev.t = "dict" /\ HasKey(ev, "ts") /\ ~strptime(ev.m["ts"]).ok

DeliveryAttempted == Len(ses_calls) = 1
Delivered == ses_calls[1].outcome.ok
StorageFailed == Len(s3_calls) = 1 /\ ~s3_calls[1].stored

\* C4: an alarm event whose 'ts' does not parse is still delivered and
\* audited under a key built from the current instant, and answered 200.
C4_BadTimestampRecovered ==
    (AlarmReturned /\ UnparsableTs(a_event) /\ ~ExtractionFault(a_event)) =>
        /\ DeliveryAttempted
        /\ Len(s3_calls) = 1
        /\ \E k \in Instants :
              s3_calls[1].Key = S3Key(utcnow(k), Get(a_event.m, "equipment", PyStr(unknown)))
        /\ s3_calls[1].stored => a_response.statusCode = 200

\* what alarm_record says of the delivery
AuditMatchesDelivery(body) ==
    /\ body.email_sent = Delivered
    /\ IF Delivered
       THEN /\ "ses_message_id" \in DOMAIN body
            /\ body.ses_message_id = ses_calls[1].outcome.v
            /\ "email_error" \notin DOMAIN body
       ELSE /\ "email_error" \in DOMAIN body
            /\ body.email_error = ses_calls[1].outcome.err
            /\ "ses_message_id" \notin DOMAIN body

\* C8, as amended: once the delivery step was reached, whether send_email
\* succeeded or raised, exactly one audit write was attempted, after the
\* delivery attempt, its body flagging email_sent exactly when delivery
\* succeeded (with the delivery id, or the error text); when that write
\* succeeds exactly one audit object is stored and the response is 200 with
\* the same flag; when it raises nothing is stored and the response is 500.
C8_AuditWriteAttemptedWhateverDelivery ==
    (AlarmReturned /\ DeliveryAttempted) =>
        /\ Len(s3_calls) = 1
        /\ s3_calls[1].after_ses_calls = 1
        /\ s3_calls[1].Key = a_local.s3_key
        /\ AuditMatchesDelivery(s3_calls[1].Body)
        /\ IF s3_calls[1].stored
           THEN /\ s3_objects = <<[Key |-> s3_calls[1].Key, Body |-> s3_calls[1].Body]>>
                /\ a_response.statusCode = 200
                /\ a_response.body.email_sent = Delivered
           ELSE /\ s3_objects = <<>>
                /\ a_response.statusCode = 500

\* C8, as stated: once the delivery step was reached exactly one audit
\* object is in storage, flagged as delivery went, and the response is 200
\* with the same flag.
C8_AuditWrittenWhateverDelivery ==
    (AlarmReturned /\ DeliveryAttempted) =>
        /\ Len(s3_objects) = 1
        /\ AuditMatchesDelivery(s3_objects[1].Body)
        /\ a_response.statusCode = 200
        /\ a_response.body.email_sent = Delivered

\* send_email raised, the audit object was stored with the error text, and
\* the response is 200
C8_Witness ==
    /\ AlarmReturned
    /\ DeliveryAttempted
    /\ ~Delivered
    /\ Len(s3_objects) = 1
    /\ s3_objects[1].Body.email_sent = FALSE
    /\ s3_objects[1].Body.email_error = "MessageRejected"
    /\ a_response.statusCode = 200

\* C9: the handler is at one of its steps or has returned (no exception
\* leaves it), and what it returns has statusCode 200 or 500: 500 with the
\* error text after any fault other than a delivery error (in the
\* extraction, in the timestamp, in the storage write), 200 otherwise, a
\* delivery error included.
C9_StructuredResultAlways ==
    /\ a_pc \in {"start", "send", "store", "returned"}
    /\ ~AlarmReturned => a_response = NoValue
    /\ AlarmReturned =>
          /\ a_response.statusCode \in {200, 500}
          /\ IF ExtractionFault(a_event) \/ UnparsableTs(a_event) \/ StorageFailed
             THEN /\ a_response.statusCode = 500
                  /\ DOMAIN a_response.body = {"error", "mode"}
                  /\ a_response.body.error
                        \in S3Errors \cup {"AttributeError", "TypeError", "KeyError", "ValueError"}
             ELSE /\ a_response.statusCode = 200
                  /\ a_response.body.status = "success"

\* mail was sent, the storage write then raised, and the response is 500
C9_Witness ==
    /\ AlarmReturned
    /\ DeliveryAttempted
    /\ Delivered
    /\ StorageFailed
    /\ a_response.statusCode = 500
    /\ a_response.body.error = "AccessDenied"

=============================================================================
